---- MODULE Spec2Model ----
(***************************************************************************)
(* Model of src/rini_client.py: the asynchronous client RiniAPIClient, its *)
(* connection lifecycle (__aenter__/__aexit__), the request primitive      *)
(* (_request/_perform_request) with its error mapping, and the typed       *)
(* methods that marshal their arguments into a request.                    *)
(*                                                                         *)
(* Python values are tagged records.  A string is a sequence of chunks, so *)
(* that concatenation (an f-string) is \o and the empty string is << >>.   *)
(***************************************************************************)
EXTENDS Integers, Sequences, FiniteSets, TLC

VARIABLES
    token,          \* self.token
    base_url_valid, \* whether httpx accepts self.base_url (constructor argument)
    http_client,    \* self._http_client: 0 is None, otherwise a connection id
    conns,          \* every httpx.AsyncClient made so far, by id
    closing,        \* how many __aexit__ are suspended in `await ...aclose()`
    call,           \* per call site: the typed method suspended in client.request
    wire,           \* the HTTP request this step handed to client.request, if any
    last,           \* the typed-method call this step ended, if any
    issued,         \* the token the latest create_user installed, until set_token
    margs,          \* marshalling check: the method and arguments drawn
    mreq            \* marshalling check: the request the method built

vars == <<token, base_url_valid, http_client, conns, closing, call, wire, last,
          issued, margs, mreq>>

-----------------------------------------------------------------------------
(* Bounds of the model *)

MaxConns == 2

-----------------------------------------------------------------------------
(* Python values *)

PyNone == [k |-> "none"]
PyStr(s) == [k |-> "str", v |-> s]
PyBool(b) == [k |-> "bool", v |-> b]
PyInt(n) == [k |-> "int", v |-> n]
PyDict(f) == [k |-> "dict", v |-> f]
PyList(l) == [k |-> "list", v |-> l]

\* The marker of an argument the caller did not pass (the default applies).
Absent == [k |-> "absent"]

EmptyDict == [x \in {} |-> PyNone]

\* Python truth value of x (`if x:`).
Truthy(x) ==
    CASE x.k = "none" -> FALSE
      [] x.k = "str"  -> x.v # << >>
      [] x.k = "bool" -> x.v
      [] x.k = "int"  -> x.v # 0
      [] x.k = "dict" -> DOMAIN x.v # {}
      [] x.k = "list" -> x.v # << >>
      [] OTHER        -> TRUE

Digit(n) ==
    CASE n = 0 -> "0" [] n = 1 -> "1" [] n = 2 -> "2" [] n = 3 -> "3"
      [] n = 4 -> "4" [] n = 5 -> "5" [] n = 6 -> "6" [] n = 7 -> "7"
      [] n = 8 -> "8" [] OTHER -> "9"

RECURSIVE DecStr(_)
DecStr(n) == IF n < 10 THEN <<Digit(n)>> ELSE DecStr(n \div 10) \o <<Digit(n % 10)>>

\* str(x), as an f-string or str() formats x.
Str(x) ==
    CASE x.k = "str"  -> x
      [] x.k = "none" -> PyStr(<<"None">>)
      [] x.k = "bool" -> PyStr(IF x.v THEN <<"True">> ELSE <<"False">>)
      [] x.k = "int"  -> PyStr(DecStr(x.v))
      [] OTHER        -> PyStr(<<"<object>">>)

\* d[key] = val on a dict held as a function from keys to values.
Put(d, key, val) ==
    [x \in DOMAIN d \cup {key} |-> IF x = key THEN val ELSE d[x]]

\* `key in x` for a parsed JSON value x (a dict, or a list of strings).
Contains(x, key) ==
    CASE x.k = "dict" -> key \in DOMAIN x.v
      [] x.k = "list" -> \E i \in 1..Len(x.v) : x.v[i] = PyStr(<<key>>)
      [] OTHER        -> FALSE

-----------------------------------------------------------------------------
(* RiniApiException and what a call gives its caller *)

\* What a typed method gives its caller: a returned value or a raised exception.
Return(v) ==
    [kind |-> "return", exc |-> "", status_code |-> 0, detail |-> PyNone, value |-> v]

Raise(exc, detail) ==
    [kind |-> "raise", exc |-> exc, status_code |-> 0, detail |-> detail,
     value |-> PyNone]

\* raise RiniApiException(status_code, detail)
RiniApiException(status_code, detail) ==
    [kind |-> "raise", exc |-> "RiniApiException", status_code |-> status_code,
     detail |-> detail, value |-> PyNone]

-----------------------------------------------------------------------------
(* What `await client.request(...)` can give: a response, a transport error  *)
(* (httpx.RequestError) or any other exception.                            *)

Statuses == {200, 204, 404}

\* A response body: ok says whether it parses as JSON, v is the parsed value.
NotJson == [ok |-> FALSE, v |-> PyNone]
Json(v) == [ok |-> TRUE, v |-> v]

DetailValues == {PyStr(<<"X">>), PyStr(<< >>)}

\* Bodies of error responses, of 2xx responses and of 204 responses.
ErrorBodies ==
    {NotJson}
      \cup {Json(PyDict([detail |-> d])) : d \in DetailValues}
      \cup {Json(PyDict([id |-> PyInt(1)])),
            Json(PyList(<<PyStr(<<"access_token">>)>>))}

SuccessBodies ==
    {NotJson,
     Json(PyDict([id |-> PyInt(1)])),
     Json(PyDict([id |-> PyInt(1), access_token |-> PyStr(<<"srv">>)])),
     Json(PyDict([access_token |-> PyStr(<< >>)])),
     Json(PyList(<<PyStr(<<"access_token">>)>>))}

Bodies(status) ==
    CASE status = 204 -> {NotJson}
      [] status >= 200 /\ status <= 299 -> SuccessBodies
      [] OTHER -> ErrorBodies

Response(status, body) ==
    [t |-> "response", status |-> status, body |-> body, msg |-> << >>]
RequestError(msg) ==
    [t |-> "RequestError", status |-> 0, body |-> NotJson, msg |-> msg]
OtherException(msg) ==
    [t |-> "Exception", status |-> 0, body |-> NotJson, msg |-> msg]

Results ==
    UNION {{Response(s, b) : b \in Bodies(s)} : s \in Statuses}
      \cup {RequestError(<<"All connection attempts failed">>)}
      \cup {OtherException(<<"Object is not JSON serializable">>)}

NoResult == OtherException(<< >>)

StatusText(s) ==
    CASE s = 200 -> "200" [] s = 204 -> "204" [] s = 404 -> "404"
      [] s = 500 -> "500" [] OTHER -> "other"

\* response.is_success, which raise_for_status tests: the 2xx range.
IsSuccess(s) == 200 <= s /\ s <= 299

\* str(e) of the httpx.HTTPStatusError that raise_for_status raises.
StrHTTPStatusError(res) ==
    PyStr(<<"Error response '", StatusText(res.status), "' for url">>)

-----------------------------------------------------------------------------
(* _get_headers and _perform_request *)

Headers(f) == PyDict(f)

\* A variant that writes the Authorization header whatever the token is.
GetHeadersAlwaysAuth(tok) ==
    Headers(Put([accept |-> PyStr(<<"application/json">>)], "Authorization",
                PyStr(<<"Bearer ">> \o Str(tok).v)))

GetHeaders(tok) ==
    LET headers == [accept |-> PyStr(<<"application/json">>)]
    IN  Headers(IF Truthy(tok)
                THEN Put(headers, "Authorization", PyStr(<<"Bearer ">> \o tok.v))
                ELSE headers)

\* A variant that reads the field with `payload.get("detail") or str(e)`.
ErrorDetailFalsyFallsBack(res) ==
    IF res.body.ok /\ res.body.v.k = "dict"
    THEN IF "detail" \in DOMAIN res.body.v.v /\ Truthy(res.body.v.v["detail"])
         THEN res.body.v.v["detail"]
         ELSE StrHTTPStatusError(res)
    ELSE StrHTTPStatusError(res)

\* A variant without the fallback to str(e): detail stays None.
ErrorDetailNoFallback(res) ==
    IF res.body.ok /\ res.body.v.k = "dict" /\ "detail" \in DOMAIN res.body.v.v
    THEN res.body.v.v["detail"]
    ELSE PyNone

\* Lines 86-91: the detail of a response raise_for_status rejected.
ErrorDetail(res) ==
    IF res.body.ok /\ res.body.v.k = "dict"
    THEN IF "detail" \in DOMAIN res.body.v.v
         THEN res.body.v.v["detail"]
         ELSE StrHTTPStatusError(res)
    ELSE StrHTTPStatusError(res)

\* A variant that calls response.json() before it looks at the status.
SuccessResultParsesFirst(res) ==
    [outcome |->
       IF ~res.body.ok
       THEN RiniApiException(500,
              PyStr(<<"An unexpected client-side error occurred: ", "Expecting value">>))
       ELSE IF res.status = 204 THEN Return(PyNone) ELSE Return(res.body.v),
     parsed |-> TRUE]

\* Lines 82-84: the result of a response raise_for_status accepted.  `parsed`
\* records whether response.json() was called; a body that is not JSON makes
\* it raise, which the handler of line 95 catches.
SuccessResult(res) ==
    IF res.status = 204
    THEN [outcome |-> Return(PyNone), parsed |-> FALSE]
    ELSE [outcome |->
            IF res.body.ok
            THEN Return(res.body.v)
            ELSE RiniApiException(500,
                   PyStr(<<"An unexpected client-side error occurred: ",
                           "Expecting value">>)),
          parsed |-> TRUE]

\* A variant in which the catch-all handler takes the transport error.
TransportFailureAs500(res) ==
    RiniApiException(500,
        PyStr(<<"An unexpected client-side error occurred: ">> \o res.msg))

\* Line 94: a transport error.
TransportFailure(res) ==
    RiniApiException(503, PyStr(<<"Request to Rini API failed: ">> \o res.msg))

\* Line 96: any other exception.
UnexpectedFailure(res) ==
    RiniApiException(500,
        PyStr(<<"An unexpected client-side error occurred: ">> \o res.msg))

\* A variant whose catch-all (line 95) also takes the server errors whose
\* body gives no detail.
PerformRequestCatchAllRewrites(res) ==
    CASE res.t = "response" /\ IsSuccess(res.status) -> SuccessResult(res)
      [] res.t = "response" /\ ~IsSuccess(res.status) ->
            [outcome |->
                IF res.body.ok /\ res.body.v.k = "dict" /\ "detail" \in DOMAIN res.body.v.v
                THEN RiniApiException(res.status, ErrorDetail(res))
                ELSE RiniApiException(500, ErrorDetail(res)),
             parsed |-> TRUE]
      [] res.t = "RequestError" ->
            [outcome |-> TransportFailure(res), parsed |-> FALSE]
      [] OTHER ->
            [outcome |-> UnexpectedFailure(res), parsed |-> FALSE]

\* Lines 71-96: what _perform_request does with the result of client.request.
PerformRequest(res) ==
    CASE res.t = "response" /\ IsSuccess(res.status) -> SuccessResult(res)
      [] res.t = "response" /\ ~IsSuccess(res.status) ->
            [outcome |-> RiniApiException(res.status, ErrorDetail(res)),
             parsed |-> TRUE]
      [] res.t = "RequestError" ->
            [outcome |-> TransportFailure(res), parsed |-> FALSE]
      [] OTHER ->
            [outcome |-> UnexpectedFailure(res), parsed |-> FALSE]

-----------------------------------------------------------------------------
(* The typed methods: each builds the arguments of one _request call.  `a`   *)
(* is the record of the method's parameters as the caller passed them, with  *)
(* Absent for a parameter the caller left out.                               *)

\* The value a parameter is bound to: the default when the caller left it out.
Arg(x, default) == IF x = Absent THEN default ELSE x

\* `if cond: d[key] = val`
PutIf(cond, d, key, val) == IF cond THEN Put(d, key, val) ELSE d

\* The keyword arguments of self._request(method, endpoint, ...).
Request(method, endpoint, params, json_data, data, files) ==
    [method |-> method, endpoint |-> endpoint, params |-> params,
     json_data |-> json_data, data |-> data, files |-> files]

Plain(method, endpoint) == Request(method, endpoint, PyNone, PyNone, PyNone, PyNone)
WithJson(method, endpoint, payload) ==
    Request(method, endpoint, PyNone, PyDict(payload), PyNone, PyNone)
WithParams(method, endpoint, params) ==
    Request(method, endpoint, PyDict(params), PyNone, PyNone, PyNone)

\* {"skip": skip, "limit": limit} with the defaults of the signature.
Paging(a, skip, limit) ==
    [skip |-> Arg(a.skip, PyInt(skip)), limit |-> Arg(a.limit, PyInt(limit))]

create_user_and_set_token(a) == Plain("POST", <<"/users/">>)

get_my_info(a) == Plain("GET", <<"/users/me">>)

register_api_key(a) ==
    LET description == Arg(a.description, PyNone)
        payload == [model_provider |-> a.model_provider,
                    api_key_value |-> a.api_key_value]
    IN  WithJson("POST", <<"/api-keys/">>,
                 PutIf(description # PyNone, payload, "description", description))

list_api_keys(a) == WithParams("GET", <<"/api-keys/">>, Paging(a, 0, 10))

get_api_key(a) == Plain("GET", <<"/api-keys/">> \o Str(a.api_key_id).v)

update_api_key(a) ==
    LET description == Arg(a.description, PyNone)
        is_active == Arg(a.is_active, PyNone)
        p1 == PutIf(description # PyNone, EmptyDict, "description", description)
        p2 == PutIf(is_active # PyNone, p1, "is_active", is_active)
    IN  WithJson("PUT", <<"/api-keys/">> \o Str(a.api_key_id).v, p2)

delete_api_key(a) == Plain("DELETE", <<"/api-keys/">> \o Str(a.api_key_id).v)

\* A variant that sends every parameter, None included.
create_session_sends_null(a) ==
    WithJson("POST", <<"/sessions/">>,
             [memory_mode |-> Arg(a.memory_mode, PyStr(<<"auto">>)),
              alias |-> Arg(a.alias, PyNone),
              system_prompt |-> Arg(a.system_prompt, PyNone)])

\* A variant that leaves memory_mode out unless the caller passed one.
create_session_default_omitted(a) ==
    LET alias == Arg(a.alias, PyNone)
        system_prompt == Arg(a.system_prompt, PyNone)
        p0 == PutIf(a.memory_mode # Absent, EmptyDict, "memory_mode", a.memory_mode)
        p1 == PutIf(alias # PyNone, p0, "alias", alias)
        p2 == PutIf(system_prompt # PyNone, p1, "system_prompt", system_prompt)
    IN  WithJson("POST", <<"/sessions/">>, p2)

create_session(a) ==
    LET alias == Arg(a.alias, PyNone)
        system_prompt == Arg(a.system_prompt, PyNone)
        memory_mode == Arg(a.memory_mode, PyStr(<<"auto">>))
        p0 == [memory_mode |-> memory_mode]
        p1 == PutIf(alias # PyNone, p0, "alias", alias)
        p2 == PutIf(system_prompt # PyNone, p1, "system_prompt", system_prompt)
    IN  WithJson("POST", <<"/sessions/">>, p2)

list_sessions(a) == WithParams("GET", <<"/sessions/">>, Paging(a, 0, 10))

get_session(a) == Plain("GET", <<"/sessions/">> \o Str(a.session_id).v)

update_session(a) ==
    LET alias == Arg(a.alias, PyNone)
        system_prompt == Arg(a.system_prompt, PyNone)
        memory_mode == Arg(a.memory_mode, PyNone)
        p1 == PutIf(alias # PyNone, EmptyDict, "alias", alias)
        p2 == PutIf(system_prompt # PyNone, p1, "system_prompt", system_prompt)
        p3 == PutIf(memory_mode # PyNone, p2, "memory_mode", memory_mode)
    IN  WithJson("PUT", <<"/sessions/">> \o Str(a.session_id).v, p3)

delete_session(a) == Plain("DELETE", <<"/sessions/">> \o Str(a.session_id).v)

add_message_to_session(a) ==
    WithJson("POST", <<"/sessions/">> \o Str(a.session_id).v \o <<"/messages/">>,
             [role |-> a.role, content |-> a.content])

list_session_messages(a) ==
    WithParams("GET", <<"/sessions/">> \o Str(a.session_id).v \o <<"/messages/">>,
               Paging(a, 0, 100))

get_message_info(a) == Plain("GET", <<"/messages/">> \o Str(a.message_id).v)

get_message_parent_history(a) ==
    Plain("GET", <<"/messages/">> \o Str(a.message_id).v \o <<"/history">>)

get_text_from_text(a) ==
    LET session_id == Arg(a.session_id, PyNone)
        llm_params == Arg(a.llm_params, PyNone)
        p0 == [text |-> a.text, provider |-> a.provider, model |-> a.model]
        p1 == PutIf(Truthy(session_id), p0, "session_id", session_id)
        p2 == PutIf(Truthy(llm_params), p1, "llm_params", llm_params)
    IN  WithJson("POST", <<"/llm/text-completion/">>, p2)

get_text_from_messages(a) ==
    LET llm_params == Arg(a.llm_params, PyNone)
        p0 == [messages |-> a.messages, provider |-> a.provider, model |-> a.model]
        p1 == PutIf(Truthy(llm_params), p0, "llm_params", llm_params)
    IN  WithJson("POST", <<"/llm/chat-completions/">>, p1)

\* The local filesystem: a path is <<directory, stem, extension>>.
Files == {PyStr(<<"imgs/", "cat", ".png">>), PyStr(<<"imgs/", "scan", ".raw">>)}

\* os.path.exists(path)
Exists(path) == path \in Files

\* os.path.basename(path)
Basename(path) == PyStr(<<path.v[2], path.v[3]>>)

\* mimetypes.guess_type(path)[0], None for an extension it does not know
GuessType(path) ==
    CASE path.v[3] = ".png" -> PyStr(<<"image/png">>)
      [] path.v[3] = ".jpg" -> PyStr(<<"image/jpeg">>)
      [] OTHER -> PyNone

\* Line 237: keep the fields that are not None, each as str(v).
StrFormData(form_data) ==
    [x \in {y \in DOMAIN form_data : form_data[y] # PyNone} |-> Str(form_data[x])]

\* Lines 223-239, reached when the file exists (lines 220-221).
get_text_from_image_and_text(a) ==
    LET model == Arg(a.model, PyNone)
        prompt == Arg(a.prompt, PyNone)
        session_id == Arg(a.session_id, PyNone)
        f0 == [provider |-> a.provider]
        f1 == PutIf(Truthy(prompt), f0, "prompt", prompt)
        f2 == PutIf(Truthy(model), f1, "model", model)
        f3 == PutIf(Truthy(session_id), f2, "session_id", session_id)
        guessed == GuessType(a.image_file_path)
        mime_type == IF Truthy(guessed) THEN guessed
                     ELSE PyStr(<<"application/octet-stream">>)
        files == [image_file |->
                    PyList(<<Basename(a.image_file_path), a.image_file_path, mime_type>>)]
    IN  Request("POST", <<"/llm/image-completion/">>, PyNone, PyNone,
                PyDict(StrFormData(f3)), PyDict(files))

get_embedding(a) ==
    WithJson("POST", <<"/llm/embeddings/">>,
             [input |-> a.text_input,
              provider |-> Arg(a.provider, PyStr(<<"openai">>)),
              model |-> Arg(a.model, PyStr(<<"text-embedding-3-large">>))])

add_mcp_connection(a) ==
    LET alias == Arg(a.alias, PyNone)
        description == Arg(a.description, PyNone)
        p0 == [mcp_server_url |-> a.url, is_active |-> Arg(a.is_active, PyBool(TRUE))]
        p1 == PutIf(Truthy(alias), p0, "alias", alias)
        p2 == PutIf(Truthy(description), p1, "description", description)
    IN  WithJson("POST", <<"/mcp-connections/">>, p2)

list_mcp_connections(a) ==
    LET is_active == Arg(a.is_active, PyNone)
    IN  WithParams("GET", <<"/mcp-connections/">>,
                   PutIf(is_active # PyNone, Paging(a, 0, 100), "is_active", is_active))

get_mcp_connection_detail(a) ==
    Plain("GET", <<"/mcp-connections/">> \o Str(a.connection_id).v)

update_mcp_connection(a) ==
    Request("PUT", <<"/mcp-connections/">> \o Str(a.connection_id).v,
            PyNone, a.mcp_update_data, PyNone, PyNone)

delete_mcp_connection(a) ==
    Plain("DELETE", <<"/mcp-connections/">> \o Str(a.connection_id).v)

\* {"memory_type": ..., "scope": ..., "content": ..., **kwargs}
add_memory_entry(a) ==
    LET p0 == [memory_type |-> a.memory_type, scope |-> a.scope, content |-> a.content]
        kw == a.kwargs
    IN  WithJson("POST", <<"/sessions/">> \o Str(a.session_id).v \o <<"/memory">>,
                 [x \in DOMAIN p0 \cup DOMAIN kw |->
                    IF x \in DOMAIN kw THEN kw[x] ELSE p0[x]])

list_memory_entries(a) ==
    LET session_id == Arg(a.session_id, PyNone)
        scope == Arg(a.scope, PyNone)
        memory_type == Arg(a.memory_type, PyNone)
        p1 == PutIf(Truthy(session_id), Paging(a, 0, 100), "session_id", session_id)
        p2 == PutIf(Truthy(scope), p1, "scope", scope)
        p3 == PutIf(Truthy(memory_type), p2, "memory_type", memory_type)
    IN  WithParams("GET", <<"/memory/">>, p3)

get_memory_entry_detail(a) == Plain("GET", <<"/memory/">> \o Str(a.memory_id).v)

update_memory_entry(a) ==
    Request("PATCH", <<"/memory/">> \o Str(a.memory_id).v,
            PyNone, a.memory_update_data, PyNone, PyNone)

delete_memory_entry(a) == Plain("DELETE", <<"/memory/">> \o Str(a.memory_id).v)

get_cost_estimation(a) ==
    LET start_date == Arg(a.start_date, PyNone)
        end_date == Arg(a.end_date, PyNone)
        session_id == Arg(a.session_id, PyNone)
        provider == Arg(a.provider, PyNone)
        model == Arg(a.model, PyNone)
        p1 == PutIf(Truthy(start_date), EmptyDict, "start_date", start_date)
        p2 == PutIf(Truthy(end_date), p1, "end_date", end_date)
        p3 == PutIf(Truthy(session_id), p2, "session_id", session_id)
        p4 == PutIf(Truthy(provider), p3, "provider", provider)
        p5 == PutIf(Truthy(model), p4, "model", model)
    IN  WithParams("GET", <<"/usage/cost-estimation/">>, p5)

\* The parameters of `meth` whose default in the signature is None.
NoneDefault(meth) ==
    CASE meth = "register_api_key" -> {"description"}
      [] meth = "update_api_key" -> {"description", "is_active"}
      [] meth = "create_session" -> {"alias", "system_prompt"}
      [] meth = "update_session" -> {"alias", "system_prompt", "memory_mode"}
      [] meth = "get_text_from_text" -> {"session_id", "llm_params"}
      [] meth = "get_text_from_messages" -> {"llm_params"}
      [] meth = "get_text_from_image_and_text" -> {"model", "prompt", "session_id"}
      [] meth = "add_mcp_connection" -> {"alias", "description"}
      [] meth = "list_mcp_connections" -> {"is_active"}
      [] meth = "list_memory_entries" -> {"session_id", "scope", "memory_type"}
      [] meth = "get_cost_estimation" ->
            {"start_date", "end_date", "session_id", "provider", "model"}
      [] OTHER -> {}

\* The _request call typed method `meth` makes for the arguments `a`.
BuildRequest(meth, a) ==
    CASE meth = "create_user_and_set_token" -> create_user_and_set_token(a)
      [] meth = "get_my_info" -> get_my_info(a)
      [] meth = "register_api_key" -> register_api_key(a)
      [] meth = "list_api_keys" -> list_api_keys(a)
      [] meth = "get_api_key" -> get_api_key(a)
      [] meth = "update_api_key" -> update_api_key(a)
      [] meth = "delete_api_key" -> delete_api_key(a)
      [] meth = "create_session" -> create_session(a)
      [] meth = "list_sessions" -> list_sessions(a)
      [] meth = "get_session" -> get_session(a)
      [] meth = "update_session" -> update_session(a)
      [] meth = "delete_session" -> delete_session(a)
      [] meth = "add_message_to_session" -> add_message_to_session(a)
      [] meth = "list_session_messages" -> list_session_messages(a)
      [] meth = "get_message_info" -> get_message_info(a)
      [] meth = "get_message_parent_history" -> get_message_parent_history(a)
      [] meth = "get_text_from_text" -> get_text_from_text(a)
      [] meth = "get_text_from_messages" -> get_text_from_messages(a)
      [] meth = "get_text_from_image_and_text" -> get_text_from_image_and_text(a)
      [] meth = "get_embedding" -> get_embedding(a)
      [] meth = "add_mcp_connection" -> add_mcp_connection(a)
      [] meth = "list_mcp_connections" -> list_mcp_connections(a)
      [] meth = "get_mcp_connection_detail" -> get_mcp_connection_detail(a)
      [] meth = "update_mcp_connection" -> update_mcp_connection(a)
      [] meth = "delete_mcp_connection" -> delete_mcp_connection(a)
      [] meth = "add_memory_entry" -> add_memory_entry(a)
      [] meth = "list_memory_entries" -> list_memory_entries(a)
      [] meth = "get_memory_entry_detail" -> get_memory_entry_detail(a)
      [] meth = "update_memory_entry" -> update_memory_entry(a)
      [] meth = "delete_memory_entry" -> delete_memory_entry(a)
      [] OTHER -> get_cost_estimation(a)

-----------------------------------------------------------------------------
(* The client: construction, __aenter__, __aexit__, set_token and the calls *)

Callers == {"c1", "c2"}

\* The `async with client:` blocks that can be leaving at once.
Scopes == {"s1", "s2"}

\* self.token values: None, the empty string, and tokens.
CtorTokens == {PyNone, PyStr(<<"tok0">>)}
SetTokens == {PyStr(<< >>), PyStr(<<"tok0">>)}

\* The calls the call sites make in the lifecycle specification.
MainCalls ==
    {[meth |-> "create_user_and_set_token", a |-> << >>],
     [meth |-> "get_my_info", a |-> << >>],
     [meth |-> "delete_api_key", a |-> [api_key_id |-> PyInt(7)]],
     [meth |-> "get_text_from_image_and_text",
      a |-> [image_file_path |-> PyStr(<<"imgs/", "cat", ".png">>),
             provider |-> PyStr(<<"google">>), model |-> Absent,
             prompt |-> PyStr(<<"what is this">>), session_id |-> Absent]],
     [meth |-> "get_text_from_image_and_text",
      a |-> [image_file_path |-> PyStr(<<"imgs/", "gone", ".png">>),
             provider |-> PyStr(<<"google">>), model |-> Absent,
             prompt |-> Absent, session_id |-> Absent]]}

DeleteMethods ==
    {"delete_api_key", "delete_session", "delete_mcp_connection", "delete_memory_entry"}

\* self.base_url (line 18) and self._timeout (line 21), as __init__ leaves them.
BaseUrl == PyStr(<<"http://localhost:8000">>)
Timeout == 600

\* httpx.AsyncClient(base_url=self.base_url, timeout=self._timeout), lines 26
\* and 54; oneshot tells the connection of line 54 from the one of line 26.
NewClient(oneshot) ==
    [state |-> "open", base_url |-> BaseUrl, timeout |-> Timeout, oneshot |-> oneshot]

\* aclose() on connection i, and leaving the `async with` of line 54.
Released(cs, i) == [cs EXCEPT ![i].state = "closed"]

\* A variant of _request that makes a connection of its own for every call.
UsesOneShotAlways(handle) == TRUE

\* Line 52: `if not self._http_client`.
UsesOneShot(handle) == handle = 0

\* A variant of _request that never closes the connection it made.
LeaveOneShotLeaks(cs, cl) == cs

\* Lines 54-55: leaving `async with httpx.AsyncClient(...) as one_shot_client`
\* closes the connection the call cl made for itself.
LeaveOneShot(cs, cl) == IF cl.oneshot THEN Released(cs, cl.conn) ELSE cs

Idle == [pc |-> "idle", meth |-> "", conn |-> 0, oneshot |-> FALSE]

NoWire == [headers |-> PyNone, req |-> Plain("", << >>), conn |-> 0]

\* _request was not called.
NotCalled == [kind |-> "none", exc |-> "", status_code |-> 0, detail |-> PyNone,
              value |-> PyNone]

\* One finished call of a typed method: whether it handed a request to
\* client.request, what client.request gave, what _request gave the method
\* and what the method gave its caller.
Event(meth, sent, res, parsed, request, outcome) ==
    [meth |-> meth, sent |-> sent, res |-> res, parsed |-> parsed,
     request |-> request, outcome |-> outcome]

NoEvent == Event("", FALSE, NoResult, FALSE, NotCalled, NotCalled)

NoMarshal == [state |-> "none", req |-> Plain("", << >>)]

\* Whether lines 108-109 store a token: _request returned a truthy dict that
\* holds the key (a list that holds the string makes line 109 raise instead).
SetsToken(meth, request) ==
    /\ meth = "create_user_and_set_token"
    /\ request.kind = "return"
    /\ Truthy(request.value)
    /\ Contains(request.value, "access_token")
    /\ request.value.k = "dict"

\* A variant of create_user_and_set_token that never stores the token.
TokenAfterKeepsOld(tok, meth, request) == tok

\* A variant of create_user_and_set_token that clears the token when the
\* response brings none.
TokenAfterClearsWithoutToken(tok, meth, request) ==
    IF SetsToken(meth, request) THEN request.value.v["access_token"]
    ELSE IF meth = "create_user_and_set_token" THEN PyNone
    ELSE tok

\* Lines 108-111 and set_token: self.token after the method got `request`.
TokenAfter(tok, meth, request) ==
    IF SetsToken(meth, request) THEN request.value.v["access_token"] ELSE tok

\* A variant of the typed methods that swallows what _request raises.
MethodOutcomeSuppresses(meth, request) ==
    IF request.kind # "return" THEN Return(PyNone) ELSE request

\* What the typed method gives its caller once _request gave `request`.
MethodOutcome(meth, request) ==
    IF request.kind # "return" THEN request
    ELSE IF meth \in DeleteMethods THEN Return(PyNone)
    ELSE IF /\ meth = "create_user_and_set_token"
            /\ Truthy(request.value)
            /\ Contains(request.value, "access_token")
            /\ request.value.k # "dict"
         THEN Raise("TypeError", PyStr(<<"list indices must be integers">>))
    ELSE request

-----------------------------------------------------------------------------
(* Actions.  `wire` and `last` describe the step just taken: the request it  *)
(* handed to client.request and the call it ended; a step that did neither   *)
(* leaves NoWire and NoEvent.                                                *)

Init ==
    /\ token \in CtorTokens
    /\ base_url_valid \in BOOLEAN
    /\ http_client = 0
    /\ conns = << >>
    /\ closing = 0
    /\ call = [c \in Callers |-> Idle]
    /\ wire = NoWire
    /\ last = NoEvent
    /\ issued = PyNone
    /\ margs = [meth |-> "", a |-> << >>]
    /\ mreq = NoMarshal

Quiet == wire' = NoWire /\ last' = NoEvent

\* A variant of __aenter__ without the test of line 25.
OpenAlwaysCreates ==
    /\ base_url_valid
    /\ Len(conns) < MaxConns
    /\ conns' = Append(conns, NewClient(FALSE))
    /\ http_client' = Len(conns) + 1
    /\ Quiet
    /\ UNCHANGED <<token, base_url_valid, closing, call, issued, margs, mreq>>

\* __aenter__ (lines 23-27).  httpx.AsyncClient(base_url=...) raises
\* httpx.InvalidURL for a base address it cannot parse, and the handle stays None.
Open ==
    /\ IF http_client = 0 /\ base_url_valid
       THEN /\ Len(conns) < MaxConns
            /\ conns' = Append(conns, NewClient(FALSE))
            /\ http_client' = Len(conns) + 1
       ELSE UNCHANGED <<conns, http_client>>
    /\ Quiet
    /\ UNCHANGED <<token, base_url_valid, closing, call, issued, margs, mreq>>

\* A variant of __aexit__ that awaits nothing and releases nothing.
CloseBeginForgetsAclose ==
    /\ closing < Cardinality(Scopes)
    /\ http_client # 0
    /\ closing' = closing + 1
    /\ Quiet
    /\ UNCHANGED <<token, base_url_valid, http_client, conns, call, issued, margs, mreq>>

\* __aexit__ up to its await (lines 31-32): aclose() marks the client closed;
\* with no connection (line 31 false) __aexit__ ends having done nothing.
\* Several __aexit__ can be suspended at once: nested or concurrent
\* `async with` blocks on one client.
CloseBegin ==
    /\ IF http_client # 0
       THEN /\ closing < Cardinality(Scopes)
            /\ conns' = Released(conns, http_client)
            /\ closing' = closing + 1
       ELSE UNCHANGED <<conns, closing>>
    /\ Quiet
    /\ UNCHANGED <<token, base_url_valid, http_client, call, issued, margs, mreq>>

\* __aexit__ after its await (line 33).
CloseEnd ==
    /\ closing > 0
    /\ http_client' = 0
    /\ closing' = closing - 1
    /\ Quiet
    /\ UNCHANGED <<token, base_url_valid, conns, call, issued, margs, mreq>>

\* set_token (lines 98-101)
SetToken(t) ==
    /\ token' = t
    /\ issued' = PyNone
    /\ Quiet
    /\ UNCHANGED <<base_url_valid, http_client, conns, closing, call, margs, mreq>>

\* A variant of get_text_from_image_and_text without the check of line 220.
ImageFileNeverChecked(m) == FALSE

\* Lines 220-221: the image method is given a path that does not exist.
ImageFileMissing(m) ==
    m.meth = "get_text_from_image_and_text" /\ ~Exists(m.a.image_file_path)

\* A typed method that ends before it awaits the network, giving `request`
\* from _request (NotCalled when it never called it) and `outcome` to its caller.
EndsAtOnce(m, sent, request, outcome) ==
    /\ last' = Event(m.meth, sent, NoResult, FALSE, request, outcome)
    /\ UNCHANGED <<token, base_url_valid, http_client, closing, call, issued,
                   margs, mreq>>

\* A typed method from its call to its suspension in `await client.request`
\* (line 72), or to its end when it raises before that.
Call(c, m) ==
    /\ call[c].pc = "idle"
    /\ LET sending == [headers |-> GetHeaders(token), req |-> BuildRequest(m.meth, m.a),
                       conn |-> IF UsesOneShot(http_client) THEN Len(conns) + 1
                                ELSE http_client]
           closed == RiniApiException(500,
                        PyStr(<<"An unexpected client-side error occurred: ",
                                "Cannot send a request, as the client has been closed.">>))
       IN
       IF ImageFileMissing(m)
       THEN \* lines 220-221
            /\ EndsAtOnce(m, FALSE, NotCalled,
                          Raise("FileNotFoundError",
                                PyStr(<<"Image file not found: ">> \o m.a.image_file_path.v)))
            /\ wire' = NoWire
            /\ UNCHANGED conns
       ELSE IF UsesOneShot(http_client) /\ ~base_url_valid
       THEN \* line 54: the one-shot httpx.AsyncClient(...) raises outside the try
            /\ EndsAtOnce(m, FALSE, Raise("InvalidURL", PyStr(<<"Invalid port">>)),
                          Raise("InvalidURL", PyStr(<<"Invalid port">>)))
            /\ wire' = NoWire
            /\ UNCHANGED conns
       ELSE IF ~UsesOneShot(http_client) /\ conns[http_client].state = "closed"
       THEN \* line 72 on a client aclose() has closed: RuntimeError, caught at line 95
            /\ EndsAtOnce(m, TRUE, closed, closed)
            /\ wire' = sending
            /\ UNCHANGED conns
       ELSE /\ IF UsesOneShot(http_client)
               THEN /\ Len(conns) < MaxConns
                    /\ conns' = Append(conns, NewClient(TRUE))
               ELSE UNCHANGED conns
            /\ wire' = sending
            /\ last' = NoEvent
            /\ call' = [call EXCEPT ![c] = [pc |-> "awaiting", meth |-> m.meth,
                                            conn |-> sending.conn,
                                            oneshot |-> UsesOneShot(http_client)]]
            /\ UNCHANGED <<token, base_url_valid, http_client, closing, issued,
                           margs, mreq>>

\* client.request gives `res`: the rest of _perform_request, the release of a
\* one-shot connection (line 54) and the rest of the typed method.
Respond(c, res) ==
    /\ call[c].pc = "awaiting"
    /\ LET meth == call[c].meth
           pr == PerformRequest(res)
           outcome == MethodOutcome(meth, pr.outcome)
       IN  /\ last' = Event(meth, TRUE, res, pr.parsed, pr.outcome, outcome)
           /\ token' = TokenAfter(token, meth, pr.outcome)
           /\ issued' = IF SetsToken(meth, pr.outcome) THEN token' ELSE issued
    /\ conns' = LeaveOneShot(conns, call[c])
    /\ wire' = NoWire
    /\ call' = [call EXCEPT ![c] = Idle]
    /\ UNCHANGED <<base_url_valid, http_client, closing, margs, mreq>>

Next ==
    \/ Open
    \/ CloseBegin
    \/ CloseEnd
    \/ \E t \in SetTokens : SetToken(t)
    \/ \E c \in Callers, m \in MainCalls : Call(c, m)
    \/ \E c \in Callers, res \in Results : Respond(c, res)

Spec == Init /\ [][Next]_vars

-----------------------------------------------------------------------------
(* Marshalling alone: a typed method applied to arguments drawn from the     *)
(* values a caller can pass for each parameter.                              *)

Calls(meth, A) == {[meth |-> meth, a |-> a] : a \in A}

ReqStr == {PyStr(<<"v">>)}
Ids == {PyInt(7), PyInt(12)}
OptStr == {Absent, PyNone, PyStr(<< >>), PyStr(<<"v">>)}
OptBool == {Absent, PyNone, PyBool(FALSE), PyBool(TRUE)}
OptDict == {Absent, PyNone, PyDict(EmptyDict), PyDict([temperature |-> PyInt(1)])}
OptInt == {Absent, PyInt(0), PyInt(5)}
Paths == Files \cup {PyStr(<<"imgs/", "gone", ".png">>)}

MarshalCalls ==
    Calls("create_user_and_set_token", {<< >>})
    \cup Calls("get_my_info", {<< >>})
    \cup Calls("register_api_key",
               [model_provider : ReqStr, api_key_value : ReqStr, description : OptStr])
    \cup Calls("list_api_keys", [skip : OptInt, limit : OptInt])
    \cup Calls("get_api_key", [api_key_id : Ids])
    \cup Calls("update_api_key",
               [api_key_id : Ids, description : OptStr, is_active : OptBool])
    \cup Calls("delete_api_key", [api_key_id : Ids])
    \cup Calls("create_session",
               [alias : OptStr \cup {PyStr(<<"A">>)}, system_prompt : OptStr,
                memory_mode : {Absent, PyStr(<<"manual">>)}])
    \cup Calls("list_sessions", [skip : OptInt, limit : OptInt])
    \cup Calls("get_session", [session_id : ReqStr])
    \cup Calls("update_session",
               [session_id : ReqStr, alias : OptStr, system_prompt : OptStr,
                memory_mode : OptStr])
    \cup Calls("delete_session", [session_id : ReqStr])
    \cup Calls("add_message_to_session",
               [session_id : ReqStr, role : ReqStr, content : ReqStr])
    \cup Calls("list_session_messages",
               [session_id : ReqStr, skip : OptInt, limit : OptInt])
    \cup Calls("get_message_info", [message_id : Ids])
    \cup Calls("get_message_parent_history", [message_id : Ids])
    \cup Calls("get_text_from_text",
               [text : ReqStr, provider : ReqStr, model : ReqStr,
                session_id : OptStr, llm_params : OptDict])
    \cup Calls("get_text_from_messages",
               [messages : {PyList(<<PyDict([role |-> PyStr(<<"user">>)])>>)},
                provider : ReqStr, model : ReqStr, llm_params : OptDict])
    \cup Calls("get_text_from_image_and_text",
               [image_file_path : Paths, provider : ReqStr, model : OptStr,
                prompt : OptStr, session_id : OptStr])
    \cup Calls("get_embedding",
               [text_input : ReqStr, provider : {Absent, PyStr(<<"google">>)},
                model : {Absent, PyStr(<<"v">>)}])
    \cup Calls("add_mcp_connection",
               [url : ReqStr, alias : OptStr, description : OptStr,
                is_active : {Absent, PyBool(FALSE), PyBool(TRUE)}])
    \cup Calls("list_mcp_connections",
               [is_active : OptBool, skip : OptInt, limit : OptInt])
    \cup Calls("get_mcp_connection_detail", [connection_id : Ids])
    \cup Calls("update_mcp_connection",
               [connection_id : Ids,
                mcp_update_data : {PyDict(EmptyDict), PyDict([alias |-> PyStr(<<"v">>)])}])
    \cup Calls("delete_mcp_connection", [connection_id : Ids])
    \cup Calls("add_memory_entry",
               [session_id : ReqStr, memory_type : ReqStr, scope : ReqStr,
                content : ReqStr, kwargs : {EmptyDict, [importance |-> PyInt(1)]}])
    \cup Calls("list_memory_entries",
               [session_id : OptStr, scope : OptStr, memory_type : OptStr,
                skip : OptInt, limit : OptInt])
    \cup Calls("get_memory_entry_detail", [memory_id : Ids])
    \cup Calls("update_memory_entry",
               [memory_id : Ids,
                memory_update_data : {PyDict(EmptyDict), PyDict([content |-> PyStr(<<"v">>)])}])
    \cup Calls("delete_memory_entry", [memory_id : Ids])
    \cup Calls("get_cost_estimation",
               [start_date : OptStr, end_date : OptStr, session_id : OptStr,
                provider : OptStr, model : OptStr])

InitMarshal ==
    /\ token = PyNone
    /\ base_url_valid = TRUE
    /\ http_client = 0
    /\ conns = << >>
    /\ closing = 0
    /\ call = [c \in Callers |-> Idle]
    /\ wire = NoWire
    /\ last = NoEvent
    /\ issued = PyNone
    /\ margs \in MarshalCalls
    /\ mreq = NoMarshal

\* The typed method margs.meth up to its _request call.
Marshal ==
    /\ mreq.state = "none"
    /\ mreq' = IF ImageFileMissing(margs)
               THEN [state |-> "FileNotFoundError", req |-> Plain("", << >>)]
               ELSE [state |-> "built", req |-> BuildRequest(margs.meth, margs.a)]
    /\ UNCHANGED <<token, base_url_valid, http_client, conns, closing, call, wire,
                   last, issued, margs>>

NextMarshal == Marshal

SpecMarshal == InitMarshal /\ [][NextMarshal]_vars

-----------------------------------------------------------------------------
(* Properties.  A token is a non-empty string: None and "" both count as no  *)
(* token (demo.py tests `if client.token`).                                  *)

HasToken(tok) == tok # PyNone /\ tok # PyStr(<< >>)

Bearer(tok) == PyStr(<<"Bearer ">> \o tok.v)

\* The step handed a request to client.request.
Sent == wire # NoWire

\* The step ended a call in which client.request gave a response.
GotResponse == last.sent /\ last.res.t = "response"

\* ... a response with a status outside 2xx.
GotErrorResponse == GotResponse /\ (last.res.status < 200 \/ last.res.status > 299)

\* ... whose body is a JSON object with a detail field.
BodyHasDetail ==
    /\ last.res.body.ok
    /\ last.res.body.v.k = "dict"
    /\ "detail" \in DOMAIN last.res.body.v.v

\* The keys transmitted by a request: JSON body, query parameters, form fields.
DictKeys(d) == IF d = PyNone THEN {} ELSE DOMAIN d.v
SentKeys(req) == DictKeys(req.params) \cup DictKeys(req.json_data) \cup DictKeys(req.data)

\* The value transmitted under `key`.
SentValue(req, key) ==
    IF key \in DictKeys(req.params) THEN req.params.v[key]
    ELSE IF key \in DictKeys(req.json_data) THEN req.json_data.v[key]
    ELSE req.data.v[key]

\* C1: when create_user_and_set_token returns a response that holds an access
\* token, self.token is that token; and every request handed to the network
\* while the token create_user installed is still in place (no set_token since)
\* carries Authorization: Bearer <that token>.
C1_IssuedTokenStoredAndSent ==
    /\ (/\ last.meth = "create_user_and_set_token"
        /\ last.outcome.kind = "return"
        /\ last.outcome.value.k = "dict"
        /\ "access_token" \in DOMAIN last.outcome.value.v)
       => token = last.outcome.value.v["access_token"]
    /\ (Sent /\ HasToken(issued))
       => /\ token = issued
          /\ "Authorization" \in DOMAIN wire.headers.v
          /\ wire.headers.v["Authorization"] = Bearer(issued)

C1_Witness ==
    /\ Sent
    /\ issued = PyStr(<<"srv">>)
    /\ wire.headers.v["Authorization"] = PyStr(<<"Bearer ", "srv">>)

\* C2: whatever _request raises is a RiniApiException.
C2_OnlyDomainExceptionEscapes ==
    last.request.kind = "raise" => last.request.exc = "RiniApiException"

\* C3: a response outside 2xx whose body is a JSON object with a detail field
\* makes _request raise RiniApiException with exactly that detail.
C3_ServerDetailSurfaces ==
    (GotErrorResponse /\ BodyHasDetail)
    => /\ last.request.kind = "raise"
       /\ last.request.exc = "RiniApiException"
       /\ last.request.detail = last.res.body.v.v["detail"]

C3_Witness ==
    /\ last.res = Response(404, Json(PyDict([detail |-> PyStr(<< >>)])))
    /\ last.request.exc = "RiniApiException"
    /\ last.request.detail = PyStr(<< >>)

\* C4: a response outside 2xx whose body is not JSON, or is JSON without a
\* detail field, makes _request raise RiniApiException with a non-empty string
\* as detail.
C4_GenericDetailNonEmpty ==
    (GotErrorResponse /\ ~BodyHasDetail)
    => /\ last.request.kind = "raise"
       /\ last.request.exc = "RiniApiException"
       /\ last.request.detail.k = "str"
       /\ last.request.detail.v # << >>

C4_Witness ==
    /\ last.res = Response(404, NotJson)
    /\ last.request.exc = "RiniApiException"
    /\ last.request.detail.k = "str"

\* C5: a transport error of the HTTP call makes _request raise RiniApiException
\* with status 503 and the detail "Request to Rini API failed: " followed by
\* the text of the transport error.
C5_TransportFailureIs503 ==
    (last.sent /\ last.res.t = "RequestError")
    => /\ last.request.kind = "raise"
       /\ last.request.exc = "RiniApiException"
       /\ last.request.status_code = 503
       /\ last.request.detail = PyStr(<<"Request to Rini API failed: ">> \o last.res.msg)

C5_Witness ==
    /\ last.res = RequestError(<<"All connection attempts failed">>)
    /\ last.request.status_code = 503

\* C6: a 204 response makes _request return None without calling
\* response.json(); any other 2xx response has its body parsed, and the parsed
\* body is what _request returns (a body that is not JSON makes the parse raise).
C6_NoContentNotParsed ==
    /\ (GotResponse /\ last.res.status = 204)
       => /\ last.request = Return(PyNone)
          /\ ~last.parsed
    /\ (GotResponse /\ last.res.status >= 200 /\ last.res.status <= 299
          /\ last.res.status # 204)
       => /\ last.parsed
          /\ last.res.body.ok => last.request = Return(last.res.body.v)

C6_Witness ==
    /\ last.res = Response(204, NotJson)
    /\ last.request = Return(PyNone)

\* C7 as stated: no parameter the caller left out appears as a key of the JSON
\* body, the query parameters or the form fields.
C7_OmittedNeverSent ==
    mreq.state = "built"
    => \A p \in DOMAIN margs.a : margs.a[p] = Absent => p \notin SentKeys(mreq.req)

\* C7 as amended: a parameter the caller left out does not appear as a key when
\* its default is None, and appears when its default is a value (skip, limit,
\* memory_mode of create_session, is_active of add_mcp_connection, provider and
\* model of get_embedding).
C7_OmittedNoneDefaultNeverSent ==
    mreq.state = "built"
    => \A p \in DOMAIN margs.a :
          margs.a[p] = Absent
          => (p \in NoneDefault(margs.meth) <=> p \notin SentKeys(mreq.req))

C7_Witness ==
    /\ mreq.state = "built"
    /\ margs.meth = "create_session"
    /\ margs.a.alias = Absent
    /\ margs.a.system_prompt = PyStr(<<"v">>)
    /\ DOMAIN mreq.req.json_data.v = {"memory_mode", "system_prompt"}

\* The methods C8 names.
C8_Methods ==
    {"get_text_from_text", "get_text_from_messages", "add_mcp_connection",
     "list_memory_entries", "get_cost_estimation", "get_text_from_image_and_text"}

\* C8: in the methods it names, the key of an optional parameter is transmitted
\* exactly when the caller passed a value other than None, with that value.
C8_SuppliedExactlySent ==
    (mreq.state = "built" /\ margs.meth \in C8_Methods)
    => \A p \in NoneDefault(margs.meth) :
          /\ p \in SentKeys(mreq.req) <=> margs.a[p] \notin {Absent, PyNone}
          /\ p \in SentKeys(mreq.req) => SentValue(mreq.req, p) = margs.a[p]

\* C9: get_text_from_image_and_text with a path that does not exist raises
\* FileNotFoundError without calling _request: the step hands nothing to the
\* network, creates no connection and leaves the handle alone.
C9_MissingFileFailsBeforeNetwork ==
    [][\A c \in Callers, m \in MainCalls :
          (/\ m.meth = "get_text_from_image_and_text"
           /\ m.a.image_file_path \notin Files
           /\ Call(c, m))
          => /\ last'.outcome.kind = "raise"
             /\ last'.outcome.exc = "FileNotFoundError"
             /\ last'.request = NotCalled
             /\ ~last'.sent
             /\ wire' = NoWire
             /\ conns' = conns
             /\ http_client' = http_client
             /\ call' = call]_vars

C9_Witness ==
    /\ last.meth = "get_text_from_image_and_text"
    /\ last.outcome.exc = "FileNotFoundError"
    /\ ~last.sent

\* C10: a request handed to the network carries Authorization: Bearer <token>
\* exactly when the client holds a token at that moment, and always carries
\* accept: application/json.
C10_BearerIffToken ==
    Sent
    => /\ "Authorization" \in DOMAIN wire.headers.v <=> HasToken(token)
       /\ HasToken(token) => wire.headers.v["Authorization"] = Bearer(token)
       /\ "accept" \in DOMAIN wire.headers.v
       /\ wire.headers.v["accept"] = PyStr(<<"application/json">>)

C10_Witness ==
    /\ Sent
    /\ token = PyStr(<<"tok0">>)
    /\ wire.headers.v["Authorization"] = PyStr(<<"Bearer ", "tok0">>)


\* A create_session call with alias "A", no system prompt (omitted or None)
\* and memory_mode left to its default.
CreatesSessionA ==
    /\ margs.meth = "create_session"
    /\ margs.a.alias = PyStr(<<"A">>)
    /\ margs.a.system_prompt \in {Absent, PyNone}
    /\ margs.a.memory_mode = Absent

\* C11: create_session with alias "A", no system prompt and the default memory
\* mode hands _request a POST to /sessions/ whose JSON body is exactly
\* {"memory_mode": "auto", "alias": "A"}: no other key, no query parameters,
\* no form fields and no file.
C11_SessionAliasBody ==
    (mreq.state # "none" /\ CreatesSessionA)
       => /\ mreq.state = "built"
          /\ mreq.req.method = "POST"
          /\ mreq.req.endpoint = <<"/sessions/">>
          /\ mreq.req.json_data =
                PyDict([memory_mode |-> PyStr(<<"auto">>), alias |-> PyStr(<<"A">>)])
          /\ mreq.req.params = PyNone
          /\ mreq.req.data = PyNone
          /\ mreq.req.files = PyNone

C11_Witness ==
    /\ CreatesSessionA
    /\ margs.a.system_prompt = Absent
    /\ mreq.state = "built"
    /\ DictKeys(mreq.req.json_data) = {"memory_mode", "alias"}

\* The connections the step made.
Created == {i \in DOMAIN conns' : i \notin DOMAIN conns}

\* C12: __aenter__ is idempotent.  With no connection (and a base address
\* httpx accepts) it makes exactly one, open and bound to the configured base
\* address and timeout, and the handle holds it; with a connection it makes
\* none and leaves the handle and every connection as they were, so any
\* number of consecutive opens leaves the client on the first one's
\* connection.  With a base address httpx rejects it makes none either.
C12_OpenIdempotent ==
    [][Open =>
         /\ (http_client = 0 /\ base_url_valid)
              => /\ Created = {http_client'}
                 /\ conns'[http_client'].state = "open"
                 /\ conns'[http_client'].base_url = BaseUrl
                 /\ conns'[http_client'].timeout = Timeout
                 /\ \A i \in DOMAIN conns : conns'[i] = conns[i]
         /\ (http_client # 0 \/ ~base_url_valid)
              => (Created = {} /\ conns' = conns /\ http_client' = http_client)]_vars

\* The client holds the connection an open made, after a one-shot call had
\* made and released another.
C12_Witness ==
    /\ http_client = 2
    /\ conns[2] = NewClient(FALSE)
    /\ conns[1].oneshot /\ conns[1].state = "closed"
    /\ wire = NoWire /\ last = NoEvent

\* C13: __aexit__ is idempotent and can run however the block ended.  With a
\* connection it releases that connection (and only that one) and then clears
\* the handle; with none it does nothing; once it has finished the handle is
\* None, so a second close releases nothing.  Nothing a call did (returned or
\* raised) keeps __aexit__ from running.
C13_CloseIdempotent ==
    [][/\ CloseBegin =>
            /\ Created = {}
            /\ http_client # 0
                 => /\ conns'[http_client].state = "closed"
                    /\ \A i \in DOMAIN conns \ {http_client} : conns'[i] = conns[i]
            /\ http_client = 0
                 => (conns' = conns /\ http_client' = 0 /\ closing' = closing)
       /\ CloseEnd => (http_client' = 0 /\ conns' = conns)
       /\ (last' # NoEvent /\ closing' < Cardinality(Scopes)) => (ENABLED CloseBegin)']_vars

\* A close has finished: the connection __aenter__ made is released and the
\* handle is None.
C13_Witness ==
    /\ http_client = 0
    /\ closing = 0
    /\ Len(conns) = 1
    /\ ~conns[1].oneshot
    /\ conns[1].state = "closed"

\* Call site c hands its request to the network in this step.
Starts(c) == call[c].pc = "idle" /\ call'[c].pc = "awaiting"

\* The call of call site c ends in this step, having awaited the network.
Ends(c) == call[c].pc = "awaiting" /\ call'[c].pc = "idle"

\* The call sites whose request is in flight on connection i.
InFlightOn(cl, i) == {c \in Callers : cl[c].pc = "awaiting" /\ cl[c].conn = i}

\* C14: a request made while the handle is None (and the base address is one
\* httpx accepts) makes exactly one new connection, a one-shot one, and sends
\* on it; the step that ends the call, by return or by raise, releases it;
\* an open one-shot connection always carries exactly one call, its own; and
\* neither step writes the handle, so the next such call makes a new
\* connection again.  With a base address httpx rejects nothing is made.
C14_OneShotForOneCall ==
    [][/\ \A c \in Callers :
            /\ (Starts(c) /\ http_client = 0)
                 => /\ Created = {call'[c].conn}
                    /\ conns'[call'[c].conn] = NewClient(TRUE)
                    /\ wire'.conn = call'[c].conn
                    /\ http_client' = 0
            /\ (Ends(c) /\ conns[call[c].conn].oneshot)
                 => /\ conns'[call[c].conn].state = "closed"
                    /\ last'.outcome.kind \in {"return", "raise"}
                    /\ Created = {}
                    /\ http_client' = http_client
       /\ \A i \in DOMAIN conns' :
            (conns'[i].oneshot /\ conns'[i].state = "open")
               => Cardinality(InFlightOn(call', i)) = 1
       /\ ~base_url_valid => Created = {}]_vars

\* A second call without a handle is in flight on a one-shot connection of
\* its own, the first call's one-shot connection having been released.
C14_Witness ==
    /\ http_client = 0
    /\ Len(conns) = 2
    /\ conns[1].oneshot /\ conns[1].state = "closed"
    /\ conns[2] = NewClient(TRUE)
    /\ InFlightOn(call, 2) # {}
    /\ InFlightOn(call, 1) = {}

\* C15: no typed method retries or suppresses.  What _request raised as a
\* domain exception is what the caller gets, status code and detail included;
\* the FileNotFoundError of the image method reaches the caller as raised;
\* and a call hands at most one request to the network: only an idle call
\* site sends, and a call that awaits a response ends with the step that
\* receives it, whatever the response, without sending again.
C15_NoRetryNoSuppression ==
    [][/\ (last'.request.kind = "raise" /\ last'.request.exc = "RiniApiException")
            => last'.outcome = last'.request
       /\ (last' # NoEvent /\ last'.request = NotCalled)
            => (last'.outcome.kind = "raise" /\ last'.outcome.exc = "FileNotFoundError")
       /\ wire' # NoWire
            => \E c \in Callers :
                  /\ call[c].pc = "idle"
                  /\ Starts(c) \/ (last' # NoEvent /\ call' = call)
                  /\ \A d \in Callers \ {c} : call'[d] = call[d]
       /\ \A c \in Callers :
            call[c].pc = "awaiting"
               => \/ call'[c] = call[c]
                  \/ Ends(c) /\ wire' = NoWire /\ last'.sent]_vars

\* delete_api_key got a 404 from the server and its caller got that very
\* domain exception.
C15_Witness ==
    /\ last.meth = "delete_api_key"
    /\ last.res.t = "response"
    /\ last.res.status = 404
    /\ last.request.exc = "RiniApiException"
    /\ last.outcome = last.request
    /\ last.outcome.status_code = 404

\* _request raised the domain exception with this status code.
RaisedStatus(code) ==
    /\ last.request.kind = "raise"
    /\ last.request.exc = "RiniApiException"
    /\ last.request.status_code = code

\* client.request gave a 2xx response other than 204 whose body is not JSON.
GotUnparsableSuccess ==
    /\ GotResponse
    /\ IsSuccess(last.res.status)
    /\ last.res.status # 204
    /\ ~last.res.body.ok

RequestStep == wire' # NoWire \/ last' # NoEvent

\* C17: while the client holds a connection, every call from every call site
\* sends on that connection and makes none of its own, also while another
\* call site's request is in flight on it; and no step of a request writes
\* the handle.
C17_CallsShareConnection ==
    [][/\ RequestStep => http_client' = http_client
       /\ (wire' # NoWire /\ http_client # 0)
            => (wire'.conn = http_client /\ Created = {} /\ conns' = conns)
       /\ \A c \in Callers :
            (Starts(c) /\ http_client # 0)
               => /\ call'[c].conn = http_client
                  /\ ~conns'[call'[c].conn].oneshot
                  /\ conns'[call'[c].conn].state = "open"]_vars

\* Both call sites have a request in flight on the one open connection the
\* client holds, and no other connection was made.
C17_Witness ==
    /\ http_client # 0
    /\ conns[http_client] = NewClient(FALSE)
    /\ InFlightOn(call, http_client) = Callers
    /\ Len(conns) = 1

\* C18: under every interleaving of requests with __aenter__ and __aexit__ on
\* one client, a request in flight is in flight on a connection that has not
\* been released: a request that started on the shared connection completes
\* before that connection is closed.
C18_NoRequestOnReleasedConnection ==
    \A c \in Callers :
       call[c].pc = "awaiting" => conns[call[c].conn].state = "open"

\* The call that ended in this step is a create_user_and_set_token whose
\* response is a JSON object holding an access_token.
TokenBearingCreateUser ==
    /\ last'.meth = "create_user_and_set_token"
    /\ last'.request.kind = "return"
    /\ last'.request.value.k = "dict"
    /\ "access_token" \in DOMAIN last'.request.value.v

\* C19: self.token is written by set_token and by a create_user_and_set_token
\* whose response holds an access_token, and by nothing else: a step that
\* sends a request, a call of any other method however it ends, and a
\* create_user_and_set_token that raised, got an empty response or got one
\* without an access_token all leave it as it was; so do __aenter__ and
\* __aexit__.
C19_TokenFrame ==
    [][/\ token' # token
            => \/ \E t \in SetTokens : SetToken(t)
               \/ TokenBearingCreateUser
                    /\ token' = last'.request.value.v["access_token"]
       /\ (last' # NoEvent /\ ~TokenBearingCreateUser) => token' = token
       /\ wire' # NoWire => token' = token]_vars

\* create_user_and_set_token returned a response without an access_token and
\* the token passed to the constructor or to set_token is still in place.
C19_Witness ==
    /\ last.meth = "create_user_and_set_token"
    /\ last.outcome = Return(PyDict([id |-> PyInt(1)]))
    /\ token = PyStr(<<"tok0">>)

====
